---- MODULE Spec2Model ----
(***************************************************************************)
(* A model of the ZIM browser's session navigation: the sidebar's          *)
(* paginated suggestion list (Sidebar), link normalisation                 *)
(* (ZimBrowser.on_markdown_link_clicked), content loading                  *)
(* (ZimBrowser.load_article, _load_article_from_history) and the           *)
(* back/forward history (ZimBrowser._add_to_history and the two            *)
(* action_history handlers).                                               *)
(*                                                                         *)
(* Python strings are modelled as sequences of one-character strings, so   *)
(* that stripping, percent-decoding, splitting and path normalisation are  *)
(* computed and not assumed.                                               *)
(*                                                                         *)
(* Spec is the whole application.  PagerSpec and PagerRunSpec are the      *)
(* sidebar on its own, with any prefix and limit; LinkSpec is the browser  *)
(* in which only links are clicked, over a larger set of hrefs.            *)
(***************************************************************************)
EXTENDS Integers, Sequences, FiniteSets, TLC

VARIABLES
    has_main_page,         \* whether the opened archive holds an entry "mainPage"
    sidebar_mounted,       \* Sidebar.on_mount has run
    app_mounted,           \* ZimBrowser.on_mount has run
    all_articles,          \* Sidebar.all_articles: sequence of <<path, title>>
    current_prefix,        \* Sidebar.current_prefix
    current_offset,        \* Sidebar.current_offset
    batch_size,            \* Sidebar.batch_size
    has_more,              \* Sidebar.has_more
    requests,              \* the getResults calls made since the last load_articles
    history,               \* ZimBrowser.history: sequence of <<path, title>>
    history_index,         \* ZimBrowser.history_index (0-based, -1 when empty)
    current_article,       \* ZimBrowser.current_article / sub_title
    current_article_path,  \* ZimBrowser.current_article_path
    content,               \* what content_view.update last rendered
    opened,                \* the last href handed to webbrowser.open
    scn                    \* observer: the operations performed so far, while they follow a script

vars == <<has_main_page, sidebar_mounted, app_mounted, all_articles, current_prefix,
          current_offset, batch_size, has_more, requests, history, history_index,
          current_article, current_article_path, content, opened, scn>>

pagerVars == <<all_articles, current_prefix, current_offset, batch_size, has_more,
               requests>>

navVars == <<history, history_index, current_article, current_article_path, content>>

(***************************************************************************)
(* Bounds of the model.                                                    *)
(***************************************************************************)
\* The longest history the model lets a navigation build.
MaxHist == 3

\* The batch size the handlers pass to load_articles (100 in the source).
BatchLimit == 2

\* The look-ahead distance of Sidebar._on_highlight_changed.
Threshold == 10

\* The largest limit the sidebar, taken on its own, is asked to load with.
MaxLimit == 4

\* The number of entries the title index lists under the prefix "l".
LongLen == 14

(***************************************************************************)
(* String helpers (Python str methods, urllib.parse.unquote, posixpath).   *)
(***************************************************************************)
Slash == "/"

Min(a, b) == IF a < b THEN a ELSE b

StartsWith(s, p) == Len(s) >= Len(p) /\ SubSeq(s, 1, Len(p)) = p

EndsWith(s, p) == Len(s) >= Len(p) /\ SubSeq(s, Len(s) - Len(p) + 1, Len(s)) = p

Drop(s, n) == SubSeq(s, n + 1, Len(s))

\* str.lstrip(c): every leading c is removed.
RECURSIVE Lstrip(_, _)
Lstrip(s, c) == IF s # <<>> /\ s[1] = c THEN Lstrip(Drop(s, 1), c) ELSE s

\* str.rstrip(c): every trailing c is removed.
RECURSIVE Rstrip(_, _)
Rstrip(s, c) ==
    IF s # <<>> /\ s[Len(s)] = c THEN Rstrip(SubSeq(s, 1, Len(s) - 1), c) ELSE s

Contains(s, c) == \E i \in 1..Len(s) : s[i] = c

\* str.find(c) + 1: the 1-based position of the first c, 0 when there is none.
FirstIndex(s, c) ==
    IF Contains(s, c)
    THEN CHOOSE i \in 1..Len(s) : s[i] = c /\ \A j \in 1..(i - 1) : s[j] # c
    ELSE 0

\* str.rfind(c) + 1: the 1-based position of the last c, 0 when there is none.
LastIndex(s, c) ==
    IF Contains(s, c)
    THEN CHOOSE i \in 1..Len(s) : s[i] = c /\ \A j \in (i + 1)..Len(s) : s[j] # c
    ELSE 0

\* s.split(c)[0]: the part before the first c (all of s when there is none).
SplitFirst(s, c) ==
    IF Contains(s, c) THEN SubSeq(s, 1, FirstIndex(s, c) - 1) ELSE s

\* s.split(c): the components between the separators.
RECURSIVE Split(_, _)
Split(s, c) ==
    IF Contains(s, c)
    THEN <<SplitFirst(s, c)>> \o Split(Drop(s, FirstIndex(s, c)), c)
    ELSE <<s>>

\* c.join(comps)
RECURSIVE JoinWith(_, _)
JoinWith(comps, c) ==
    IF comps = <<>> THEN <<>>
    ELSE IF Len(comps) = 1 THEN comps[1]
    ELSE comps[1] \o <<c>> \o JoinWith(Drop(comps, 1), c)

\* The percent escapes of the characters the model's hrefs use (hex digits in
\* either case); unquote leaves any other '%' sequence of these hrefs as it is.
HexPairs ==
    { <<<<"2", "F">>, "/">>, <<<<"2", "f">>, "/">>,
      <<<<"3", "F">>, "?">>, <<<<"3", "f">>, "?">>,
      <<<<"2", "3">>, "#">>, <<<<"2", "E">>, ".">>, <<<<"2", "e">>, ".">>,
      <<<<"2", "0">>, " ">>, <<<<"2", "5">>, "%">> }

IsEscape(s) ==
    /\ Len(s) >= 3
    /\ s[1] = "%"
    /\ \E hp \in HexPairs : hp[1] = <<s[2], s[3]>>

EscapeChar(s) == (CHOOSE hp \in HexPairs : hp[1] = <<s[2], s[3]>>)[2]

\* urllib.parse.unquote: one pass, each %XX replaced by its character.
RECURSIVE Unquote(_)
Unquote(s) ==
    IF s = <<>> THEN <<>>
    ELSE IF IsEscape(s) THEN <<EscapeChar(s)>> \o Unquote(Drop(s, 3))
    ELSE <<s[1]>> \o Unquote(Drop(s, 1))

AllSlashes(s) == \A i \in 1..Len(s) : s[i] = Slash

\* posixpath.dirname
Dirname(p) ==
    LET head == SubSeq(p, 1, LastIndex(p, Slash))
    IN  IF head # <<>> /\ ~AllSlashes(head) THEN Rstrip(head, Slash) ELSE head

\* posixpath.join(a, p)
PathJoin(a, p) ==
    IF StartsWith(p, <<Slash>>) THEN p
    ELSE IF a = <<>> \/ EndsWith(a, <<Slash>>) THEN a \o p
    ELSE a \o <<Slash>> \o p

\* The component loop of posixpath.normpath.
RECURSIVE NormComps(_, _, _)
NormComps(comps, acc, initial_slashes) ==
    IF comps = <<>> THEN acc
    ELSE LET comp == comps[1]
             rest == Drop(comps, 1)
         IN  IF comp = <<>> \/ comp = <<".">> THEN NormComps(rest, acc, initial_slashes)
             ELSE IF \/ comp # <<".", ".">>
                     \/ (initial_slashes = 0 /\ acc = <<>>)
                     \/ (acc # <<>> /\ acc[Len(acc)] = <<".", ".">>)
                  THEN NormComps(rest, Append(acc, comp), initial_slashes)
             ELSE IF acc # <<>>
                  THEN NormComps(rest, SubSeq(acc, 1, Len(acc) - 1), initial_slashes)
             ELSE NormComps(rest, acc, initial_slashes)

\* posixpath.normpath
Normpath(path) ==
    IF path = <<>> THEN <<".">>
    ELSE LET initial_slashes ==
                 IF ~StartsWith(path, <<Slash>>) THEN 0
                 ELSE IF StartsWith(path, <<Slash, Slash>>)
                         /\ ~StartsWith(path, <<Slash, Slash, Slash>>) THEN 2
                 ELSE 1
             joined == JoinWith(NormComps(Split(path, Slash), <<>>, initial_slashes), Slash)
             out == IF initial_slashes = 2 THEN <<Slash, Slash>> \o joined
                    ELSE IF initial_slashes = 1 THEN <<Slash>> \o joined
                    ELSE joined
         IN  IF out = <<>> THEN <<".">> ELSE out

(***************************************************************************)
(* The archive the session has opened (libzim.reader.Archive): read-only,  *)
(* so a fixed set of entries.  An entry is an article (with an item) or a  *)
(* redirect to a target path.                                              *)
(***************************************************************************)
pA == <<"A">>

pB == <<"d", "/", "B">>

pC == <<"d", "/", "C">>

pMain == <<"m", "a", "i", "n", "P", "a", "g", "e">>

pR2 == <<"R", "2">>

pR3 == <<"R", "3">>

pRB == <<"R", "B">>

pX == <<"X">>

\* A path the title index still lists but the archive no longer resolves.
pGone == <<"g">>

\* The target of the broken redirect RB: no entry has this path.
pDangling == <<"z">>

\* a/base.html, an article in the directory a
pBase == <<"a", "/", "b", "a", "s", "e", ".", "h", "t", "m", "l">>

\* d/R, a redirect in the directory d to the article A at the top
pDR == <<"d", "/", "R">>

\* d/Q, a redirect in the directory d to the redirect d/R
pDQ == <<"d", "/", "Q">>

\* The entries L01, L02, ... listed under the prefix "l"; they have no title.
pL(n) == <<"L", IF n < 10 THEN "0" ELSE "1",
           <<"0", "1", "2", "3", "4", "5", "6", "7", "8", "9">>[(n % 10) + 1]>>

Article(p, t, ok) ==
    [path |-> p, title |-> t, is_redirect |-> FALSE, target |-> <<>>, item_ok |-> ok]

Redirect(p, t, to) ==
    [path |-> p, title |-> t, is_redirect |-> TRUE, target |-> to, item_ok |-> FALSE]

\* mainPage -> R2 -> R3 -> A is a chain of three redirects; RB is a redirect whose
\* target cannot be followed; X is an article whose item cannot be read; d/B has
\* no title.
ShortEntries ==
    { Article(pA, <<"A", "a">>, TRUE),
      Article(pB, <<>>, TRUE),
      Article(pC, <<"C", "c">>, TRUE),
      Article(pX, <<"X", "x">>, FALSE),
      Redirect(pMain, <<"M">>, pR2),
      Redirect(pR2, <<"T", "2">>, pR3),
      Redirect(pR3, <<"T", "3">>, pA),
      Redirect(pRB, <<"T", "B">>, pDangling) }

\* The entries that only links lead to.
LinkedEntries ==
    { Article(pBase, <<"B", "s">>, TRUE),
      Redirect(pDR, <<"D", "R">>, pA),
      Redirect(pDQ, <<"D", "Q">>, pDR) }

ArchiveEntries ==
    ShortEntries \cup LinkedEntries
        \cup { Article(pL(n), <<>>, TRUE) : n \in 1..LongLen }

\* archive.get_entry_by_path(path) succeeds.
HasEntry(path) ==
    /\ \E e \in ArchiveEntries : e.path = path
    /\ (path = pMain => has_main_page)

\* archive.get_entry_by_path(path), when it succeeds.
GetEntry(path) == CHOOSE e \in ArchiveEntries : e.path = path

\* `title or fallback`
TitleOr(title, fallback) == IF title # <<>> THEN title ELSE fallback

\* entry.get_item(): libzim reads the item of the entry, following the redirects
\* that remain; it raises when a target is missing or the item cannot be read.
RECURSIVE GetItemFrom(_, _)
GetItemFrom(entry, fuel) ==
    IF ~entry.is_redirect THEN [ok |-> entry.item_ok, body |-> entry.path]
    ELSE IF fuel = 0 \/ ~HasEntry(entry.target) THEN [ok |-> FALSE, body |-> <<>>]
    ELSE GetItemFrom(GetEntry(entry.target), fuel - 1)

GetItem(entry) == GetItemFrom(entry, Cardinality(ArchiveEntries))

\* SuggestionSearcher.suggest(prefix): the result stream of the title index.
Suggest(prefix) ==
    IF prefix = <<"a">> THEN <<pA, pB, pC, pGone, pX>>
    ELSE IF prefix = <<"r">> THEN <<pR2, pRB>>
    ELSE IF prefix = <<"l">> THEN [n \in 1..LongLen |-> pL(n)]
    ELSE IF prefix = <<"m">> THEN <<pR3, pMain, pX, pGone, pA>>
    ELSE <<>>

\* suggestion.getResults(offset, limit)
GetResults(prefix, offset, limit) ==
    SubSeq(Suggest(prefix), offset + 1, Min(offset + limit, Len(Suggest(prefix))))

\* The queries the search overlay submits.
Queries == { <<>>, <<"r">> }

\* The entries archive.get_random_entry() may return.
RandomPool == { pR3, pRB }

(***************************************************************************)
(* Sidebar: the paginated suggestion list.                                 *)
(***************************************************************************)
\* The loop of _load_batch: the (path, title) of every path that resolves; a
\* path whose lookup raises is skipped.
RECURSIVE ResolveAll(_)
ResolveAll(results) ==
    IF results = <<>> THEN <<>>
    ELSE LET path == results[1]
             rest == ResolveAll(Drop(results, 1))
         IN  IF HasEntry(path)
             THEN <<<<path, TitleOr(GetEntry(path).title, path)>>>> \o rest
             ELSE rest

\* An offset that leaves out one position of the stream after every batch.
NextOffsetSkipping(offset, count) == offset + count + 1

\* What _load_batch stores as current_offset.
NextOffset(offset, count) == offset + count

\* has_more kept true by every batch but an empty one of limit 1.
HasMoreAfterNearlyFull(limit, count) == count >= limit - 1 /\ count + limit > 1

\* has_more kept true by any batch that loaded something.
HasMoreAfterAnyLoaded(limit, count) == count > 0

\* What _load_batch stores as has_more.
HasMoreAfter(limit, count) == count >= limit

\* One call suggestion.getResults(offset, limit) and the number of paths it
\* returned.
Request(offset, limit, results) ==
    [offset |-> offset, limit |-> limit, returned |-> Len(results)]

\* Sidebar._load_batch(offset, limit, clear) on pager state pg.
LoadBatch(pg, offset, limit, clear) ==
    LET results == GetResults(pg.current_prefix, offset, limit)
        base == IF clear THEN <<>> ELSE pg.all_articles
        loaded == ResolveAll(results)
        count == Len(loaded)
    IN  [pg EXCEPT !.all_articles = base \o loaded,
                   !.current_offset = NextOffset(offset, count),
                   !.has_more = HasMoreAfter(limit, count),
                   !.requests = Append(pg.requests, Request(offset, limit, results))]

\* load_articles loading its batch without clearing the list.
LoadArticlesKeeping(pg, prefix, limit) ==
    LET p == IF prefix = <<>> THEN <<"a">> ELSE prefix
    IN  LoadBatch([pg EXCEPT !.current_prefix = p, !.current_offset = 0,
                             !.batch_size = limit, !.has_more = TRUE,
                             !.requests = <<>>],
                  0, limit, FALSE)

\* Sidebar.load_articles(prefix, limit)
LoadArticles(pg, prefix, limit) ==
    LET p == IF prefix = <<>> THEN <<"a">> ELSE prefix
    IN  LoadBatch([pg EXCEPT !.current_prefix = p, !.current_offset = 0,
                             !.batch_size = limit, !.has_more = TRUE,
                             !.requests = <<>>],
                  0, limit, TRUE)

\* load_more_articles without its test of has_more.
LoadMoreArticlesUnguarded(pg) ==
    LoadBatch(pg, pg.current_offset, pg.batch_size, FALSE)

\* Sidebar.load_more_articles()
LoadMoreArticles(pg) ==
    IF pg.has_more THEN LoadBatch(pg, pg.current_offset, pg.batch_size, FALSE) ELSE pg

\* _on_highlight_changed loading wherever the highlight is.
OnHighlightChangedAnywhere(pg, new_index) ==
    IF ~pg.has_more \/ new_index = -1 THEN pg
    ELSE IF Len(pg.all_articles) > 0 THEN LoadMoreArticles(pg) ELSE pg

\* Sidebar._on_highlight_changed(new_index); new_index = -1 stands for None.
OnHighlightChanged(pg, new_index) ==
    IF ~pg.has_more \/ new_index = -1 THEN pg
    ELSE LET list_size == Len(pg.all_articles)
         IN  IF list_size > 0 /\ new_index >= list_size - Threshold
             THEN LoadMoreArticles(pg)
             ELSE pg

Pager ==
    [all_articles |-> all_articles, current_prefix |-> current_prefix,
     current_offset |-> current_offset, batch_size |-> batch_size,
     has_more |-> has_more, requests |-> requests]

SetPager(pg) ==
    /\ all_articles' = pg.all_articles
    /\ current_prefix' = pg.current_prefix
    /\ current_offset' = pg.current_offset
    /\ batch_size' = pg.batch_size
    /\ has_more' = pg.has_more
    /\ requests' = pg.requests

(***************************************************************************)
(* ZimBrowser: history, content loading, link handling.                    *)
(***************************************************************************)
Blank == [kind |-> "blank", arg |-> <<>>]

\* The markdown of the item read from the entry at path `body`.
Rendered(body) == [kind |-> "article", arg |-> body]

\* "# Error ... Failed to follow redirect"
ErrorRedirect == [kind |-> "error_redirect", arg |-> <<>>]

\* "# Error ... Failed to load article"
ErrorLoad == [kind |-> "error_load", arg |-> <<>>]

\* "# Error ... Cannot resolve relative link without a current article"
ErrorRelative == [kind |-> "error_relative", arg |-> <<>>]

\* "# Not Found ... Article not found"
NotFound == [kind |-> "not_found", arg |-> <<>>]

IsError(c) == c.kind \notin {"blank", "article"}

\* _add_to_history without the cut of the entries after the cursor.
AddToHistoryKeepingBranch(h, idx, path, title) ==
    IF h # <<>> /\ h[Len(h)] = <<path, title>>
    THEN [history |-> h, history_index |-> idx]
    ELSE [history |-> Append(h, <<path, title>>), history_index |-> Len(h)]

\* _add_to_history cutting at history[:history_index], one entry short.
AddToHistoryCutAtCursor(h, idx, path, title) ==
    LET h1 == IF idx < Len(h) - 1 THEN SubSeq(h, 1, idx) ELSE h
    IN  IF h1 # <<>> /\ h1[Len(h1)] = <<path, title>>
        THEN [history |-> h1, history_index |-> idx]
        ELSE [history |-> Append(h1, <<path, title>>), history_index |-> Len(h1)]

\* _add_to_history without the test for a repeated tail entry.
AddToHistoryAlways(h, idx, path, title) ==
    LET h1 == IF idx < Len(h) - 1 THEN SubSeq(h, 1, idx + 1) ELSE h
    IN  [history |-> Append(h1, <<path, title>>), history_index |-> Len(h1)]

\* ZimBrowser._add_to_history(path, title) on history h with index idx.
AddToHistory(h, idx, path, title) ==
    LET h1 == IF idx < Len(h) - 1 THEN SubSeq(h, 1, idx + 1) ELSE h
    IN  IF h1 # <<>> /\ h1[Len(h1)] = <<path, title>>
        THEN [history |-> h1, history_index |-> idx]
        ELSE [history |-> Append(h1, <<path, title>>), history_index |-> Len(h1)]

\* The exception left the handler: nothing was rendered for it.
Uncaught == [kind |-> "uncaught", arg |-> <<>>]

\* The loading steps without the outer except clause: a failed lookup or item
\* read leaves the handler as an exception.
ResolveRaising(nav, path, title, strict) ==
    IF ~HasEntry(path) THEN [nav EXCEPT !.content = Uncaught]
    ELSE LET found == GetEntry(path)
             followed == found.is_redirect /\ HasEntry(found.target)
             entry == IF followed THEN GetEntry(found.target) ELSE found
             shown == IF followed THEN TitleOr(entry.title, entry.path) ELSE title
             item == GetItem(entry)
         IN  IF strict /\ found.is_redirect /\ ~followed
             THEN [nav EXCEPT !.content = ErrorRedirect]
             ELSE IF ~item.ok THEN [nav EXCEPT !.content = Uncaught]
             ELSE [nav EXCEPT !.content = Rendered(item.body),
                              !.current_article = shown,
                              !.current_article_path = entry.path]

\* The loading steps setting the current article before the item is read, so
\* that an entry whose item cannot be read becomes the current one.
ResolveSettingCurrent(nav, path, title, strict) ==
    IF ~HasEntry(path) THEN [nav EXCEPT !.content = ErrorLoad]
    ELSE LET found == GetEntry(path)
             followed == found.is_redirect /\ HasEntry(found.target)
             entry == IF followed THEN GetEntry(found.target) ELSE found
             shown == IF followed THEN TitleOr(entry.title, entry.path) ELSE title
             item == GetItem(entry)
         IN  IF strict /\ found.is_redirect /\ ~followed
             THEN [nav EXCEPT !.content = ErrorRedirect]
             ELSE [nav EXCEPT !.content = IF item.ok THEN Rendered(item.body) ELSE ErrorLoad,
                              !.current_article = shown,
                              !.current_article_path = entry.path]

\* The try block shared in shape by load_article and _load_article_from_history:
\* look the entry up, follow its redirect once, read the item, render it and
\* set the current article.  `strict` is load_article's handling of a redirect
\* that cannot be followed (render an error and return); the history loader
\* swallows that exception and goes on with the redirect entry itself.
Resolve(nav, path, title, strict) ==
    IF ~HasEntry(path) THEN [nav EXCEPT !.content = ErrorLoad]
    ELSE LET found == GetEntry(path)
             followed == found.is_redirect /\ HasEntry(found.target)
             entry == IF followed THEN GetEntry(found.target) ELSE found
             shown == IF followed THEN TitleOr(entry.title, entry.path) ELSE title
             item == GetItem(entry)
         IN  IF strict /\ found.is_redirect /\ ~followed
             THEN [nav EXCEPT !.content = ErrorRedirect]
             ELSE IF ~item.ok THEN [nav EXCEPT !.content = ErrorLoad]
             ELSE [nav EXCEPT !.content = Rendered(item.body),
                              !.current_article = shown,
                              !.current_article_path = entry.path]

\* ZimBrowser.load_article(path, title)
LoadArticle(nav, path, title) ==
    LET pushed == AddToHistory(nav.history, nav.history_index, path, title)
    IN  Resolve([nav EXCEPT !.history = pushed.history,
                            !.history_index = pushed.history_index],
                path, title, TRUE)

\* _load_article_from_history going through load_article, which pushes.
LoadArticleFromHistoryPushing(nav, path, title) == LoadArticle(nav, path, title)

\* ZimBrowser._load_article_from_history(path, title)
LoadArticleFromHistory(nav, path, title) == Resolve(nav, path, title, FALSE)

\* ZimBrowser.action_history_back()
HistoryBack(nav) ==
    IF nav.history_index > 0
    THEN LET i == nav.history_index - 1
         IN  LoadArticleFromHistory([nav EXCEPT !.history_index = i],
                                    nav.history[i + 1][1], nav.history[i + 1][2])
    ELSE nav

\* ZimBrowser.action_history_forward()
HistoryForward(nav) ==
    IF nav.history_index < Len(nav.history) - 1
    THEN LET i == nav.history_index + 1
         IN  LoadArticleFromHistory([nav EXCEPT !.history_index = i],
                                    nav.history[i + 1][1], nav.history[i + 1][2])
    ELSE nav

\* The test for an external link that knows the two schemes only.
IsExternalSchemeOnly(href) ==
    \/ StartsWith(href, <<"h", "t", "t", "p", ":", "/", "/">>)
    \/ StartsWith(href, <<"h", "t", "t", "p", "s", ":", "/", "/">>)

\* The test of on_markdown_link_clicked for a link the web browser opens.
IsExternal(href) ==
    \/ StartsWith(href, <<"h", "t", "t", "p", ":", "/", "/">>)
    \/ StartsWith(href, <<"h", "t", "t", "p", "s", ":", "/", "/">>)
    \/ StartsWith(href, <<"/", "/">>)

\* The path cut at '?' and '#' before it is percent-decoded.
StripCutDecode(href) ==
    LET stripped == Lstrip(href, Slash)
        noQuery == IF Contains(stripped, "?") THEN SplitFirst(stripped, "?") ELSE stripped
        noFragment == IF Contains(noQuery, "#") THEN SplitFirst(noQuery, "#") ELSE noQuery
    IN  Unquote(noFragment)

\* The path on_markdown_link_clicked has before it looks at relative markers:
\* leading slashes stripped, percent-decoded, cut at '?' and then at '#'.
StripDecodeCut(href) ==
    LET stripped == Lstrip(href, Slash)
        decoded == Unquote(stripped)
        noQuery == IF Contains(decoded, "?") THEN SplitFirst(decoded, "?") ELSE decoded
    IN  IF Contains(noQuery, "#") THEN SplitFirst(noQuery, "#") ELSE noQuery

IsRelative(path) ==
    \/ StartsWith(path, <<".", ".", "/">>)
    \/ StartsWith(path, <<".", "/">>)

\* The link normalisation joining a relative link to the current path itself
\* and not to its directory.
NormalizeLinkAgainstPath(href, current) ==
    IF IsExternal(href) THEN [kind |-> "external", path |-> href]
    ELSE LET path == StripDecodeCut(href)
         IN  IF IsRelative(path)
             THEN IF current = <<>>
                  THEN [kind |-> "unresolvable", path |-> href]
                  ELSE [kind |-> "internal", path |-> Normpath(PathJoin(current, path))]
             ELSE [kind |-> "internal", path |-> path]

\* The link normalisation taking the top of the archive as the base of a
\* relative link when there is no current article.
NormalizeLinkGuessingBase(href, current) ==
    IF IsExternal(href) THEN [kind |-> "external", path |-> href]
    ELSE LET path == StripDecodeCut(href)
         IN  IF IsRelative(path)
             THEN [kind |-> "internal",
                   path |-> Normpath(PathJoin(Dirname(current), path))]
             ELSE [kind |-> "internal", path |-> path]

\* The link normalisation of on_markdown_link_clicked, as a function of the
\* href and the current article path.
NormalizeLink(href, current) ==
    IF IsExternal(href) THEN [kind |-> "external", path |-> href]
    ELSE LET path == StripDecodeCut(href)
         IN  IF IsRelative(path)
             THEN IF current = <<>>
                  THEN [kind |-> "unresolvable", path |-> href]
                  ELSE [kind |-> "internal",
                        path |-> Normpath(PathJoin(Dirname(current), path))]
             ELSE [kind |-> "internal", path |-> path]

\* The part of on_markdown_link_clicked that acts on the navigation state, for a
\* link that is not external.
LinkClicked(nav, href) ==
    LET link == NormalizeLink(href, nav.current_article_path)
    IN  IF link.kind = "unresolvable" THEN [nav EXCEPT !.content = ErrorRelative]
        ELSE IF HasEntry(link.path)
             THEN LoadArticle(nav, link.path, TitleOr(GetEntry(link.path).title, link.path))
             ELSE [nav EXCEPT !.content = NotFound]

Nav ==
    [history |-> history, history_index |-> history_index,
     current_article |-> current_article,
     current_article_path |-> current_article_path, content |-> content]

SetNav(nav) ==
    /\ history' = nav.history
    /\ history_index' = nav.history_index
    /\ current_article' = nav.current_article
    /\ current_article_path' = nav.current_article_path
    /\ content' = nav.content

(***************************************************************************)
(* The inputs of the handlers.                                             *)
(***************************************************************************)
hB == <<"/", "d", "/", "B">>

hC == <<".", "/", "C">>

hUp == <<".", ".", "/", "A">>

hQuery == <<"d", "/", "C", "?", "x", "#", "s">>

hNope == <<"n", "o", "p", "e">>

hRB == <<"R", "B">>

hExt == <<"h", "t", "t", "p", ":", "/", "/", "e">>

\* The hrefs of the links a rendered article may hold.
Hrefs == { hB, hC, hUp, hQuery, hNope, hRB, hExt }

\* https
hExtS == <<"h", "t", "t", "p", "s", ":", "/", "/", "e">>

\* protocol-relative
hExtR == <<"/", "/", "e", "/", "A">>

hBase == <<"a", "/", "b", "a", "s", "e", ".", "h", "t", "m", "l">>

hDR == <<"d", "/", "R">>

hDQ == <<"d", "/", "Q">>

hPlain == <<"a", "/", "b", ".", "h", "t", "m", "l", "?", "x", "=", "1", "#", "s", "e", "c">>

hParent == <<".", ".", "/", "c", ".", "h", "t", "m", "l">>

\* a percent-encoded slash at the head
hEncSlash == <<"%", "2", "F", "A">>

\* a percent-encoded question mark
hEncQuery == <<"A", "%", "3", "F", "x">>

\* a percent-encoded hash
hEncHash == <<"A", "%", "2", "3", "s">>

\* the fragment before the query
hHashQuery == <<"A", "#", "s", "?", "x">>

\* two levels up
hUpUp == <<".", ".", "/", ".", ".", "/", "A">>

\* ./C with the dot percent-encoded
hEncDot == <<"%", "2", "E", "/", "C">>

\* ./C behind a leading slash
hSlashDot == <<"/", ".", "/", "C">>

\* The hrefs clicked when only links are followed.
LinkHrefs ==
    Hrefs \cup { hExtS, hExtR, hBase, hDR, hDQ, hPlain, hParent, hEncSlash,
                  hEncQuery, hEncHash, hHashQuery, hUpUp, hEncDot, hSlashDot }

(***************************************************************************)
(* The observer: scn.ops is the sequence of navigation operations performed *)
(* since the last selection of entry A, for as long as it is a prefix of    *)
(* one of the scripts below;     scn.fresh tells whether the history was    *)
(* empty when that selection was made.                                      *)
(***************************************************************************)
Op(name, arg) == [op |-> name, arg |-> arg]

\* push X, Y, Z; back twice; push W  (X, Y, Z, W = A, d/B, d/C, R2)
ScriptBranch ==
    << Op("select", pA), Op("select", pB), Op("select", pC),
       Op("back", <<>>), Op("back", <<>>), Op("select", pR2) >>

\* select A; click /d/B; click ./C; back; back; forward; forward
ScriptEndToEnd ==
    << Op("select", pA), Op("click", hB), Op("click", hC),
       Op("back", <<>>), Op("back", <<>>), Op("forward", <<>>), Op("forward", <<>>) >>

\* select A; select d/B; back; select A again
ScriptSuppress ==
    << Op("select", pA), Op("select", pB), Op("back", <<>>), Op("select", pA) >>

Scripts == { ScriptBranch, ScriptEndToEnd, ScriptSuppress }

IsPrefix(s, t) == Len(s) <= Len(t) /\ SubSeq(t, 1, Len(s)) = s

ScnIdle == [fresh |-> FALSE, ops |-> <<>>]

ScnStep(o) ==
    LET cand == Append(scn.ops, o)
    IN  IF scn.ops # <<>> /\ \E script \in Scripts : IsPrefix(cand, script)
        THEN [scn EXCEPT !.ops = cand]
        ELSE IF o = Op("select", pA)
             THEN [fresh |-> (history = <<>>), ops |-> <<o>>]
             ELSE ScnIdle

(***************************************************************************)
(* The state machine.                                                      *)
(***************************************************************************)
\* Sidebar.__init__ and ZimBrowser.__init__
Init ==
    /\ has_main_page \in BOOLEAN
    /\ sidebar_mounted = FALSE
    /\ app_mounted = FALSE
    /\ all_articles = <<>>
    /\ current_prefix = <<>>
    /\ current_offset = 0
    /\ batch_size = BatchLimit
    /\ has_more = TRUE
    /\ requests = <<>>
    /\ history = <<>>
    /\ history_index = -1
    /\ current_article = <<>>
    /\ current_article_path = <<>>
    /\ content = Blank
    /\ opened = <<>>
    /\ scn = ScnIdle

Ready == sidebar_mounted /\ app_mounted

\* Sidebar.on_mount
SidebarMount ==
    /\ ~sidebar_mounted
    /\ sidebar_mounted' = TRUE
    /\ SetPager(LoadArticles(Pager, <<>>, BatchLimit))
    /\ UNCHANGED <<has_main_page, app_mounted, navVars, opened, scn>>

\* ZimBrowser.on_mount
AppMount ==
    /\ ~app_mounted
    /\ app_mounted' = TRUE
    /\ IF HasEntry(pMain)
       THEN LET main_entry == GetEntry(pMain)
                title == TitleOr(main_entry.title, <<"M", "a", "i", "n", " ", "P", "a", "g", "e">>)
                pushed == AddToHistory(history, history_index, main_entry.path, title)
            IN  SetNav(LoadArticle([Nav EXCEPT !.history = pushed.history,
                                               !.history_index = pushed.history_index],
                                   main_entry.path, title))
       ELSE UNCHANGED navVars
    /\ UNCHANGED <<has_main_page, sidebar_mounted, pagerVars, opened, scn>>

\* A search that also starts the browsing session afresh.
SearchClearingSession(query) ==
    /\ Ready
    /\ SetPager(LoadArticles(Pager, query, BatchLimit))
    /\ SetNav([history |-> <<>>, history_index |-> -1, current_article |-> <<>>,
               current_article_path |-> <<>>, content |-> Blank])
    /\ UNCHANGED <<has_main_page, sidebar_mounted, app_mounted, opened, scn>>

\* ZimBrowser.on_search_modal_search_submitted -> Sidebar.search_articles(query)
Search(query) ==
    /\ Ready
    /\ SetPager(LoadArticles(Pager, query, BatchLimit))
    /\ UNCHANGED <<has_main_page, sidebar_mounted, app_mounted, navVars, opened, scn>>

\* ZimBrowser.action_cancel_search / on_search_modal_search_cancelled
CancelSearch ==
    /\ Ready
    /\ SetPager(LoadArticles(Pager, <<>>, BatchLimit))
    /\ UNCHANGED <<has_main_page, sidebar_mounted, app_mounted, navVars, opened, scn>>

\* The list's highlight moves: Sidebar._on_highlight_changed(new_index)
HighlightChanged(new_index) ==
    /\ Ready
    /\ SetPager(OnHighlightChanged(Pager, new_index))
    /\ UNCHANGED <<has_main_page, sidebar_mounted, app_mounted, navVars, opened, scn>>

\* ZimBrowser.on_list_view_selected with the list's index at i (0-based)
Select(i) ==
    /\ Ready
    /\ LET article == all_articles[i + 1]
           nav == LoadArticle(Nav, article[1], article[2])
       IN  /\ Len(nav.history) <= MaxHist
           /\ SetNav(nav)
           /\ scn' = ScnStep(Op("select", article[1]))
    /\ UNCHANGED <<has_main_page, sidebar_mounted, app_mounted, pagerVars, opened>>

\* ZimBrowser.on_markdown_link_clicked
ClickLink(href) ==
    /\ Ready
    /\ IF IsExternal(href)
       THEN /\ opened' = href
            /\ UNCHANGED navVars
       ELSE LET nav == LinkClicked(Nav, href)
            IN  /\ Len(nav.history) <= MaxHist
                /\ SetNav(nav)
                /\ UNCHANGED opened
    /\ scn' = ScnStep(Op("click", href))
    /\ UNCHANGED <<has_main_page, sidebar_mounted, app_mounted, pagerVars>>

\* ZimBrowser.action_random_article: the archive, which is not empty, returns
\* an entry of its pool.
RandomArticle ==
    /\ Ready
    /\ \E path \in RandomPool :
          /\ HasEntry(path)
          /\ LET entry == GetEntry(path)
                 nav == LoadArticle(Nav, entry.path, TitleOr(entry.title, entry.path))
             IN  /\ Len(nav.history) <= MaxHist
                 /\ SetNav(nav)
                 /\ scn' = ScnStep(Op("random", path))
    /\ UNCHANGED <<has_main_page, sidebar_mounted, app_mounted, pagerVars, opened>>

\* ZimBrowser.action_history_back
Back ==
    /\ Ready
    /\ SetNav(HistoryBack(Nav))
    /\ scn' = ScnStep(Op("back", <<>>))
    /\ UNCHANGED <<has_main_page, sidebar_mounted, app_mounted, pagerVars, opened>>

\* ZimBrowser.action_history_forward
Forward ==
    /\ Ready
    /\ SetNav(HistoryForward(Nav))
    /\ scn' = ScnStep(Op("forward", <<>>))
    /\ UNCHANGED <<has_main_page, sidebar_mounted, app_mounted, pagerVars, opened>>

Next ==
    \/ SidebarMount
    \/ AppMount
    \/ \E query \in Queries : Search(query)
    \/ CancelSearch
    \/ \E new_index \in -1..(Len(all_articles) - 1) : HighlightChanged(new_index)
    \/ \E i \in 0..(Len(all_articles) - 1) : Select(i)
    \/ \E href \in Hrefs : ClickLink(href)
    \/ RandomArticle
    \/ Back
    \/ Forward

Spec == Init /\ [][Next]_vars

(***************************************************************************)
(* The sidebar on its own: its public methods called in any order, with    *)
(* any prefix and any positive limit.                                      *)
(***************************************************************************)
\* The prefixes load_articles is called with; nothing is listed under "q".
PagerPrefixes == { <<>>, <<"a">>, <<"r">>, <<"l">>, <<"m">>, <<"q">> }

\* Sidebar.load_articles(prefix, limit)
ResetPager(prefix, limit) ==
    /\ sidebar_mounted' = TRUE
    /\ SetPager(LoadArticles(Pager, prefix, limit))
    /\ UNCHANGED <<has_main_page, app_mounted, navVars, opened, scn>>

\* Sidebar.load_more_articles()
LoadMore ==
    /\ SetPager(LoadMoreArticles(Pager))
    /\ UNCHANGED <<has_main_page, sidebar_mounted, app_mounted, navVars, opened, scn>>

\* Sidebar._on_highlight_changed(new_index)
Highlight(new_index) ==
    /\ SetPager(OnHighlightChanged(Pager, new_index))
    /\ UNCHANGED <<has_main_page, sidebar_mounted, app_mounted, navVars, opened, scn>>

PagerNext ==
    \/ \E prefix \in PagerPrefixes, limit \in 1..MaxLimit : ResetPager(prefix, limit)
    \/ LoadMore
    \/ \E new_index \in -1..(Len(all_articles) - 1) : Highlight(new_index)

PagerSpec == Init /\ [][PagerNext]_vars

\* One load_articles, then load_more_articles again and again; the event loop
\* runs every call that is made.
PagerRunNext ==
    \/ \E prefix \in PagerPrefixes, limit \in 1..MaxLimit :
          ~sidebar_mounted /\ ResetPager(prefix, limit)
    \/ sidebar_mounted /\ LoadMore

PagerRunSpec == Init /\ [][PagerRunNext]_vars /\ WF_vars(LoadMore)

(***************************************************************************)
(* The browser in which, once mounted, only links are clicked.             *)
(***************************************************************************)
LinkNext ==
    \/ SidebarMount
    \/ AppMount
    \/ \E href \in LinkHrefs : ClickLink(href)

LinkSpec == Init /\ [][LinkNext]_vars

(***************************************************************************)
(* Properties.                                                             *)
(***************************************************************************)
\* A step of select, of clickLink on a link that is not external, or of random.
NavigationStep ==
    \/ \E i \in 0..(Len(all_articles) - 1) : Select(i)
    \/ \E href \in Hrefs : ~IsExternal(href) /\ ClickLink(href)
    \/ RandomArticle

\* The entry the history cursor is on.
AtCursor == history[history_index + 1]

\* The <<path, title>> pairs a navigation can push.
Pairs == { <<e.path, TitleOr(e.title, e.path)>> : e \in ArchiveEntries }

\* C1: a navigation by select, clickLink or random that ends in an error
\* message leaves the history entries and the cursor as they were.
C1_FailedNavigationKeepsHistory ==
    [][(NavigationStep /\ IsError(content')) => UNCHANGED <<history, history_index>>]_vars

\* C2: whenever the history is not empty, the path of the entry at the cursor
\* is the current article path.
C2_CursorIsCurrent ==
    (Ready /\ history # <<>>) => AtCursor[1] = current_article_path

\* C3: pushing an entry that differs from the one at the cursor while the
\* cursor is before the tail keeps the entries up to the cursor, appends the
\* new entry and puts the cursor on it; and after pushing A, d/B, d/C, going
\* back twice and pushing R2 on an empty history, the entries are [A, R2] with
\* the cursor on R2.
C3_PushDiscardsForwardBranch ==
    /\ \A e \in Pairs :
          (history_index < Len(history) - 1 /\ e # AtCursor)
              => AddToHistory(history, history_index, e[1], e[2])
                     = [history |-> Append(SubSeq(history, 1, history_index + 1), e),
                        history_index |-> history_index + 1]
    /\ (scn.fresh /\ scn.ops = ScriptBranch)
          => /\ history = << <<pA, <<"A", "a">> >>, <<pR2, <<"T", "2">> >> >>
             /\ history_index = 1

C3_Witness == scn.fresh /\ scn.ops = ScriptBranch

\* C4: the cursor is between -1 and the last index of the entries, and is -1
\* exactly when there are no entries.
C4_CursorInRange ==
    /\ -1 <= history_index
    /\ history_index < Len(history)
    /\ (history_index = -1) <=> (history = <<>>)

\* A push suppressed as a duplicate after the forward branch was cut.
C4_Witness == scn.ops = ScriptSuppress /\ Len(history) = 1 /\ history_index = 0

\* C5: no two adjacent history entries are equal, and pushing the entry that
\* was just pushed changes nothing.
C5_NoAdjacentDuplicates ==
    /\ \A i \in 1..(Len(history) - 1) : history[i] # history[i + 1]
    /\ \A e \in Pairs :
          LET once == AddToHistory(history, history_index, e[1], e[2])
          IN  AddToHistory(once.history, once.history_index, e[1], e[2]) = once

\* Equal entries that are not adjacent are stored.
C5_Witness == Len(history) = 3 /\ history[1] = history[3]

\* C6: back moves the cursor down by one exactly when it is above 0, forward
\* moves it up by one exactly when it is below the tail; at the boundary
\* nothing of the navigation state changes; the entries never change.
C6_BackForwardMoveCursorOnly ==
    [][/\ Back => /\ history' = history
                  /\ IF history_index > 0
                     THEN history_index' = history_index - 1
                     ELSE UNCHANGED navVars
       /\ Forward => /\ history' = history
                     /\ IF history_index < Len(history) - 1
                        THEN history_index' = history_index + 1
                        ELSE UNCHANGED navVars]_vars

\* Back twice and forward once over three entries.
C6_Witness ==
    /\ scn.ops = SubSeq(ScriptEndToEnd, 1, 6)
    /\ Len(history) = 3
    /\ history_index = 1

\* C7: a back or forward that ends in an error message leaves the history
\* entries and the cursor as they were.
C7_FailedBackForwardKeepsCursor ==
    [][((Back \/ Forward) /\ IsError(content'))
          => UNCHANGED <<history, history_index>>]_vars

\* The entry named by <<path, title>>, as the current entry.
IsCurrent(path) ==
    /\ current_article_path = path
    /\ AtCursor[1] = path
    /\ content = Rendered(path)

\* C8: select A, click /d/B, click ./C, then back makes d/B current, back
\* again makes A current, and forward twice makes d/C current.
C8_EndToEnd ==
    /\ scn.ops = SubSeq(ScriptEndToEnd, 1, 3) => IsCurrent(pC)
    /\ scn.ops = SubSeq(ScriptEndToEnd, 1, 4) => IsCurrent(pB)
    /\ scn.ops = SubSeq(ScriptEndToEnd, 1, 5) => IsCurrent(pA)
    /\ scn.ops = SubSeq(ScriptEndToEnd, 1, 6) => IsCurrent(pB)
    /\ scn.ops = ScriptEndToEnd => IsCurrent(pC)

C8_Witness == scn.ops = ScriptEndToEnd

\* The entry at the end of the redirect chain that starts at `path`.
RECURSIVE ChainEnd(_, _)
ChainEnd(path, fuel) ==
    LET e == GetEntry(path)
    IN  IF ~e.is_redirect \/ fuel = 0 \/ ~HasEntry(e.target) THEN e
        ELSE ChainEnd(e.target, fuel - 1)

\* C9: after a successful load of the entry at the cursor, the current path
\* and title are those of the entry that ends its redirect chain.
C9_RedirectChainFollowed ==
    (history # <<>> /\ content.kind = "article" /\ HasEntry(AtCursor[1])
        /\ GetEntry(AtCursor[1]).is_redirect)
        => LET final == ChainEnd(AtCursor[1], Cardinality(ArchiveEntries))
           IN  /\ current_article_path = final.path
               /\ current_article = TitleOr(final.title, final.path)

\* C10: once the sidebar has loaded, the offset is the number of entries
\* requested so far: a positive multiple of the batch size.
C10_OffsetCountsRequested ==
    sidebar_mounted =>
        \E k \in 1..(current_offset + 1) : current_offset = k * batch_size

\* The most recent call of getResults.
LastRequest == requests[Len(requests)]

\* C11: after any fetch, has_more is false exactly when the search returned
\* fewer paths than batch_size in the most recent fetch; so a full batch of
\* paths of which some did not resolve leaves has_more true.
C11_HasMoreIffFullRawBatch ==
    requests # <<>> => (~has_more <=> LastRequest.returned < batch_size)

\* C12: after load_articles, calling load_more_articles again and again comes
\* to an end: has_more becomes false, and it is false after any fetch in which
\* the search returned fewer paths than the limit, whether or not all of the
\* returned paths resolved.
C12_LoadingTerminates ==
    /\ sidebar_mounted ~> ~has_more
    /\ [](requests # <<>> /\ LastRequest.returned < LastRequest.limit => ~has_more)

\* Loading ended by a short batch, not the first, of which a path did not resolve.
C12_Witness ==
    /\ ~has_more
    /\ Len(requests) >= 2
    /\ LastRequest.returned > 0
    /\ LastRequest.returned < LastRequest.limit
    /\ Len(all_articles) < LastRequest.offset + LastRequest.returned

\* C13: while has_more is false, load_more_articles and _on_highlight_changed
\* do nothing: no call of getResults is made and the prefix, the offset, the
\* batch size, has_more and the loaded list stay as they are.
C13_ExhaustedPagerIsInert ==
    [][(~has_more /\ (LoadMore \/ \E i \in -1..(Len(all_articles) - 1) : Highlight(i)))
          => UNCHANGED pagerVars]_vars

\* The pager, exhausted after several batches, on which those calls arrive.
C13_Witness ==
    /\ ~has_more
    /\ Len(requests) >= 2
    /\ all_articles # <<>>
    /\ LoadMoreArticles(Pager) = Pager
    /\ \A i \in -1..(Len(all_articles) - 1) : OnHighlightChanged(Pager, i) = Pager

\* C14: _on_highlight_changed(i) makes exactly one load_more_articles call,
\* and so one call of getResults at the current offset, when has_more is true
\* and i >= len(all_articles) - 10; it makes none when i is further from the
\* end or is None.
C14_ScrollTriggersOneLoad ==
    [][\A i \in -1..(Len(all_articles) - 1) :
          Highlight(i) =>
              IF has_more /\ i # -1 /\ i >= Len(all_articles) - 10
              THEN /\ requests' = Append(requests,
                                         Request(current_offset, batch_size,
                                                 GetResults(current_prefix, current_offset,
                                                            batch_size)))
                   /\ Pager' = LoadMoreArticles(Pager)
              ELSE UNCHANGED pagerVars]_vars

\* More than ten entries are loaded and more are to come, so that the first
\* entries are further than ten from the end.
C14_Witness ==
    /\ has_more
    /\ Len(all_articles) > 10
    /\ OnHighlightChanged(Pager, 0) = Pager
    /\ OnHighlightChanged(Pager, Len(all_articles) - 10) # Pager

\* C15: load_articles(prefix, limit) replaces the pager state as a whole: the
\* list then holds only entries of the first batch (offset 0) of the new
\* prefix, none of those loaded before, however many batches had been loaded;
\* and the stored prefix is not empty, an empty prefix being replaced by "a".
C15_ResetReplacesState ==
    [][\A prefix \in PagerPrefixes, limit \in 1..MaxLimit :
          ResetPager(prefix, limit) =>
              LET first == GetResults(current_prefix', 0, limit)
              IN  /\ current_prefix' # <<>>
                  /\ current_prefix' = IF prefix = <<>> THEN <<"a">> ELSE prefix
                  /\ batch_size' = limit
                  /\ requests' = <<Request(0, limit, first)>>
                  /\ Len(all_articles') <= Len(first)
                  /\ \A k \in 1..Len(all_articles') :
                        \E j \in 1..Len(first) : all_articles'[k][1] = first[j]]_vars

\* Several batches of the prefix "l" are loaded, and load_articles with an
\* empty prefix gives a list that holds none of them.
C15_Witness ==
    /\ current_prefix = <<"l">>
    /\ Len(requests) >= 3
    /\ Len(all_articles) >= 3
    /\ LET after == LoadArticles(Pager, <<>>, batch_size)
       IN  /\ after.current_prefix = <<"a">>
           /\ after.all_articles # <<>>
           /\ \A k \in 1..Len(after.all_articles) :
                 \A j \in 1..Len(all_articles) : after.all_articles[k] # all_articles[j]

\* C16: a search changes the pager state only: the history entries, the
\* cursor, the current path, the current title and the content shown are as
\* they were, in whatever state the search is made.
C16_SearchKeepsNavigation ==
    [][\A query \in Queries :
          Search(query) =>
              UNCHANGED <<history, history_index, current_article_path,
                          current_article, content>>]_vars

\* The list shows the results of the search for "r" next to a history of
\* several entries and a rendered article.
C16_Witness ==
    /\ current_prefix = <<"r">>
    /\ Len(history) >= 2
    /\ content.kind = "article"
    /\ current_article_path # <<>>

\* The hrefs that start with http://, https:// or //.
NetworkHref(href) ==
    \E scheme \in { <<"h", "t", "t", "p", ":">>, <<"h", "t", "t", "p", "s", ":">>, <<>> } :
        StartsWith(href, scheme \o <<"/", "/">>)

\* C17: a click on a href that starts with http://, https:// or // hands the
\* href as it is to the external opener and does nothing else: the history,
\* the cursor, the current path and title and the content shown are unchanged
\* (no entry is looked up, so nothing is loaded and no error is rendered).
C17_ExternalLinkOpenedOutside ==
    [][\A href \in LinkHrefs :
          (NetworkHref(href) /\ ClickLink(href))
              => /\ opened' = href
                 /\ UNCHANGED navVars]_vars

\* The protocol-relative href was opened from a rendered article.
C17_Witness ==
    /\ opened = hExtR
    /\ history # <<>>
    /\ content.kind = "article"

\* A path with no leading slash, no '?' and no '#'.
Canonical(path) ==
    /\ ~StartsWith(path, <<"/">>)
    /\ ~Contains(path, "?")
    /\ ~Contains(path, "#")

\* C18: for every href that is not external, the path the link normalisation
\* hands to the lookup is canonical: it has no leading slash, no '?' and no
\* '#'; also for hrefs with a percent-encoded '/', '?' or '#' and for relative
\* links resolved against the current path.
C18_LookupPathCanonical ==
    [][\A href \in LinkHrefs :
          (~NetworkHref(href) /\ ClickLink(href)) =>
              LET link == NormalizeLink(href, current_article_path)
              IN  link.kind = "internal" => Canonical(link.path)]_vars

\* The part of s before the first '?' or '#', whichever comes first.
BeforeQueryOrFragment(s) ==
    LET stops == { i \in 1..Len(s) : s[i] \in {"?", "#"} }
    IN  IF stops = {} THEN s
        ELSE SubSeq(s, 1, (CHOOSE i \in stops : \A j \in stops : i <= j) - 1)

\* The href without its one leading slash, if it has one.
WithoutLeadingSlash(href) == IF StartsWith(href, <<"/">>) THEN Drop(href, 1) ELSE href

\* What C19 says of href when the current path is `current`.
DecodedAndCut(href, current) ==
    LET link == NormalizeLink(href, current)
    IN  /\ link.kind = "internal"
        /\ link.path = BeforeQueryOrFragment(Unquote(WithoutLeadingSlash(href)))
        /\ \A e \in ArchiveEntries : NormalizeLink(href, e.path) = link

\* The hrefs that are not external and, stripped, do not begin with ../ or ./
UndottedHref(href) ==
    /\ ~NetworkHref(href)
    /\ ~StartsWith(WithoutLeadingSlash(href), <<".", ".", "/">>)
    /\ ~StartsWith(WithoutLeadingSlash(href), <<".", "/">>)

\* The hrefs that are not external and, stripped and percent-decoded, do not
\* begin with ../ or ./
PlainHref(href) ==
    /\ ~NetworkHref(href)
    /\ ~StartsWith(Unquote(WithoutLeadingSlash(href)), <<".", ".", "/">>)
    /\ ~StartsWith(Unquote(WithoutLeadingSlash(href)), <<".", "/">>)

\* C19 as stated: a href that is not external and does not begin with ../ or
\* ./ after stripping is looked up as the percent-decoded href cut at the
\* first '?' and then at the first '#', whatever the current path is.
C19_AsStated ==
    current_article_path # <<>> =>
        \A href \in LinkHrefs :
            UndottedHref(href) => DecodedAndCut(href, current_article_path)

\* C19: a href that is not external and does not begin with ../ or ./ after
\* stripping and percent-decoding is looked up as the percent-decoded href cut
\* at the first '?' and then at the first '#', whatever the current path is;
\* a/b.html?x=1#sec clicked in a/base.html gives a/b.html.
C19_PlainLinkDecodedAndCut ==
    /\ \A href \in LinkHrefs :
          PlainHref(href) => DecodedAndCut(href, current_article_path)
    /\ NormalizeLink(hPlain, pBase) = [kind |-> "internal", path |-> <<"a", "/", "b", ".", "h", "t", "m", "l">>]

\* a/base.html is the current entry, where a/b.html?x=1#sec and the hrefs
\* with an encoded '?' and with '#' before '?' are clicked.
C19_Witness ==
    /\ current_article_path = pBase
    /\ content = Rendered(pBase)
    /\ PlainHref(hPlain)
    /\ PlainHref(hEncQuery)
    /\ PlainHref(hHashQuery)

\* The hrefs that are not external and, stripped and percent-decoded, begin
\* with ../ or ./
RelativeHref(href) == ~NetworkHref(href) /\ ~PlainHref(href)

\* The path of the entry whose item the article shown was read from: the
\* end of the redirect chain of the entry at the cursor.
LoadedPath == ChainEnd(AtCursor[1], Cardinality(ArchiveEntries)).path

\* C20: a href that begins with ../ or ./ after stripping and decoding is
\* resolved against the directory of the path of the entry loaded last with
\* success, after its redirects were followed, by POSIX join and
\* normalisation; ../c.html clicked in a/base.html gives c.html.
C20_RelativeLinkAgainstDirectory ==
    /\ (history # <<>> /\ content.kind = "article") =>
          \A href \in LinkHrefs :
              RelativeHref(href) =>
                  NormalizeLink(href, current_article_path)
                      = [kind |-> "internal",
                         path |-> Normpath(PathJoin(Dirname(LoadedPath),
                                      BeforeQueryOrFragment(Unquote(WithoutLeadingSlash(href)))))]
    /\ NormalizeLink(hParent, pBase) = [kind |-> "internal", path |-> <<"c", ".", "h", "t", "m", "l">>]

\* C21: a click on a relative link (../ or ./) while no entry is loaded
\* renders the error of an unresolvable link and does nothing else: no base
\* is guessed and no entry looked up (neither Not Found nor an article is
\* shown), and the history, the cursor, the current path and the current
\* title are unchanged.
C21_RelativeLinkWithoutCurrent ==
    [][\A href \in LinkHrefs :
          (RelativeHref(href) /\ current_article_path = <<>> /\ ClickLink(href))
              => /\ NormalizeLink(href, current_article_path).kind = "unresolvable"
                 /\ content' = ErrorRelative
                 /\ UNCHANGED <<history, history_index, current_article,
                                current_article_path>>]_vars

\* The error is shown, with no entry loaded and a history that is not empty.
C21_Witness ==
    /\ content = ErrorRelative
    /\ current_article_path = <<>>
    /\ history # <<>>

\* The target at `path` cannot be loaded: it has no entry, or its item cannot
\* be read (a redirect that cannot be followed, a payload that cannot be
\* fetched).
TargetFails(path) == ~HasEntry(path) \/ ~GetItem(GetEntry(path)).ok

\* The messages the handlers render for a failure.
RenderedError(c) == c \in { ErrorRedirect, ErrorLoad, NotFound }

\* C22: in every state, a select, click, random, back or forward whose target
\* cannot be loaded (no entry, a redirect that cannot be followed, an item
\* that cannot be read) ends with an error message rendered; the failure does
\* not leave the handler as an exception.
C22_FailuresAreRendered ==
    /\ \A i \in 1..Len(all_articles) :
          TargetFails(all_articles[i][1])
              => RenderedError(LoadArticle(Nav, all_articles[i][1], all_articles[i][2]).content)
    /\ \A href \in Hrefs :
          LET link == NormalizeLink(href, current_article_path)
          IN  (link.kind = "internal" /\ TargetFails(link.path))
                  => RenderedError(LinkClicked(Nav, href).content)
    /\ \A path \in RandomPool :
          TargetFails(path)
              => RenderedError(LoadArticle(Nav, path,
                                           TitleOr(GetEntry(path).title, path)).content)
    /\ (history_index > 0 /\ TargetFails(history[history_index][1]))
          => RenderedError(HistoryBack(Nav).content)
    /\ (history_index < Len(history) - 1 /\ TargetFails(history[history_index + 2][1]))
          => RenderedError(HistoryForward(Nav).content)

\* Back or forward has put the cursor, below the tail, on an entry that
\* cannot be loaded, and the error is shown.
C22_Witness ==
    /\ history_index >= 0
    /\ history_index < Len(history) - 1
    /\ TargetFails(AtCursor[1])
    /\ content = ErrorLoad

\* C23: between two calls of load_articles the ranges requested from the
\* search are contiguous and do not overlap: the first starts at 0 and each
\* further one starts where the one before it ended (its offset plus its
\* limit), also when returned paths did not resolve and were dropped.
C23_RequestsContiguous ==
    /\ requests # <<>> => requests[1].offset = 0
    /\ \A k \in 1..(Len(requests) - 1) :
          requests[k + 1].offset = requests[k].offset + requests[k].limit

\* Three or more batches were requested, and a path of the last did not
\* resolve.
C23_Witness ==
    /\ Len(requests) >= 3
    /\ Len(all_articles) < LastRequest.offset + LastRequest.returned

\* What C24 says of the pager state.
OffsetIsLoaded ==
    /\ current_offset = Len(all_articles)
    /\ has_more => /\ Len(all_articles) > 0
                   /\ Len(all_articles) % batch_size = 0

\* C24 as stated: in every state between the calls of the sidebar the offset
\* is the number of entries loaded, and has_more implies that this number is
\* a positive multiple of batch_size.
C24_AsStated == OffsetIsLoaded

\* C24: once load_articles has run, in every state between the calls of the
\* sidebar the offset is the number of entries loaded, and has_more implies
\* that this number is a positive multiple of batch_size, whatever paths
\* failed to resolve.
C24_OffsetIsLoadedAfterReset == sidebar_mounted => OffsetIsLoaded

\* Several full batches are loaded and more are to come.
C24_Witness ==
    /\ sidebar_mounted
    /\ has_more
    /\ Len(requests) >= 2
    /\ Len(all_articles) = Len(requests) * batch_size

\* The navigation state r has the current path and title of this state, and
\* so the directory a relative link is joined to in r is the one of this state.
KeepsCurrent(r) ==
    LET after == r
    IN  /\ after.current_article_path = current_article_path
        /\ after.current_article = current_article
        /\ Dirname(after.current_article_path) = Dirname(current_article_path)

\* C25: in every state, a select, click, random, back or forward whose target
\* cannot be loaded leaves the current path and the current title as they
\* are, those of the last entry loaded with success; a relative link clicked
\* next is resolved against that entry and not against the one that failed.
C25_FailedLoadKeepsCurrent ==
    /\ \A i \in 1..Len(all_articles) :
          TargetFails(all_articles[i][1])
              => KeepsCurrent(LoadArticle(Nav, all_articles[i][1], all_articles[i][2]))
    /\ \A href \in Hrefs :
          LET link == NormalizeLink(href, current_article_path)
          IN  (link.kind = "internal" /\ TargetFails(link.path))
                  => KeepsCurrent(LinkClicked(Nav, href))
    /\ \A path \in RandomPool :
          TargetFails(path)
              => KeepsCurrent(LoadArticle(Nav, path, TitleOr(GetEntry(path).title, path)))
    /\ (history_index > 0 /\ TargetFails(history[history_index][1]))
          => KeepsCurrent(HistoryBack(Nav))
    /\ (history_index < Len(history) - 1 /\ TargetFails(history[history_index + 2][1]))
          => KeepsCurrent(HistoryForward(Nav))

\* The load of the entry at the cursor failed while d/B was current: ./C is
\* still d/C.
C25_Witness ==
    /\ history # <<>>
    /\ TargetFails(AtCursor[1])
    /\ content \in { ErrorLoad, ErrorRedirect }
    /\ current_article_path = pB
    /\ NormalizeLink(hC, current_article_path).path = pC
====
